---- MODULE Spec2Model ----
(***************************************************************************)
(* Model of examples/monitor.py: the orchestrator (main), the two notifier *)
(* channels (Alertzy, GMailSender) and the keyword monitors                *)
(* (MonitorKeyword), one thread each, polling the marketplace client.      *)
(***************************************************************************)
EXTENDS Integers, Sequences, FiniteSets, TLC

(* ------------------------------ bounds -------------------------------- *)
\* number of listing identifiers the marketplace can return
NumIds == 2
\* largest number of recipients in gmail_conf.json
MaxRecipients == 2
\* largest number of times the process is run again
MaxRestarts == 1

Ids == 1..NumIds

(* ------------------------- strings and numbers ------------------------ *)
\* str.lower() on one character
LowerChar(c) ==
    CASE c = "S" -> "s"
      [] c = "W" -> "w"
      [] c = "X" -> "x"
      [] c = "N" -> "n"
      [] OTHER -> c

\* str.lower()
Lower(s) == [k \in 1..Len(s) |-> LowerChar(s[k])]

\* Python's  sub in s  on strings
Contains(sub, s) ==
    \E k \in 0..(Len(s) - Len(sub)) : SubSeq(s, k + 1, k + Len(sub)) = sub

RECURSIVE LStrip(_)
LStrip(s) == IF s # <<>> /\ Head(s) = " " THEN LStrip(Tail(s)) ELSE s

RECURSIVE RStrip(_)
RStrip(s) ==
    IF s # <<>> /\ s[Len(s)] = " " THEN RStrip(SubSeq(s, 1, Len(s) - 1)) ELSE s

\* str.strip()
Strip(s) == RStrip(LStrip(s))

\* int(s) raises ValueError on a string that is no decimal numeral
IsNumeral(s) == s # <<>> /\ \A k \in 1..Len(s) : s[k] \in 0..9

RECURSIVE ParseInt(_)
\* int(s) for a string of decimal digits
ParseInt(s) ==
    IF s = <<>> THEN 0 ELSE 10 * ParseInt(SubSeq(s, 1, Len(s) - 1)) + s[Len(s)]

\* zip(a, b): the index range of the pairs
ZipLen2(a, b) == IF Len(a) < Len(b) THEN Len(a) ELSE Len(b)
ZipLen3(a, b, c) == ZipLen2(a, SubSeq(b, 1, ZipLen2(b, c)))

Range(s) == {s[k] : k \in 1..Len(s)}

(* --------------------------- inputs (flags) --------------------------- *)
\* --keywords values: "sw", " Sw " (stripped by main), "x"
KeywordLists ==
    { << <<"s", "w">> >>,
      << <<" ", "S", "w", " ">>, <<"x">> >> }

\* --min_prices / --max_prices values, strings of digits ("" is malformed)
PriceLists ==
    { <<>>,
      << <<5>> >>,
      << <<1, 0>> >>,
      << <<2, 0>> >>,
      << <<1, 0>>, <<3, 0>> >>,
      << <<2, 0>>, <<5, 0>> >>,
      << <<>> >> }

\* gmail_conf.json: absent, gmail_user without '@', or well formed
GmailConfStates == {"absent", "bad_user", "ok"}

\* item names the marketplace client returns, by identifier
ItemNames == << <<"n", "S", "W">>, <<"s", "x", "w">>, <<"s", "w", "x">> >>
ItemName(i) == ItemNames[((i - 1) % Len(ItemNames)) + 1]

\* fetch_all_items results: sequences of distinct identifiers
RECURSIVE Perms(_)
Perms(S) ==
    IF S = {} THEN { <<>> }
    ELSE UNION { { <<x>> \o p : p \in Perms(S \ {x}) } : x \in S }
Snapshots(listed) == UNION { Perms(S) : S \in SUBSET listed }

NoItem == [id |-> 0]

(* ------------------------------- state -------------------------------- *)
VARIABLES
    FLAGS,            \* keywords, min_prices, max_prices, disable_gmail,
                      \* disable_alertzy, alertzy_key (TRUE: a key is given)
    gmail_conf,       \* state of the file gmail_conf.json
    recipients,       \* number of recipients listed in gmail_conf.json
    main_pc,          \* position of main(); "rejected": an assertion of the
                      \* validation failed, "crashed": a channel's start-up
                      \* ended the process, "exited": main() returned
    main_i,           \* index of the monitor main() starts / joins next
    gmail,            \* "unset", "None", or GMailSender with use_module "on"/"off"
    alertzy,          \* "unset", "None", or Alertzy with use_module "on"/"off"
    gmail_lock,       \* GMailSender.lock: 0 free, m held by monitor m
    alertzy_lock,     \* Alertzy.lock: 0 free, m held by monitor m
    monitors,         \* list of MonitorKeyword: keyword, price_min, price_max,
                      \* persisted_items
    pc,               \* position of each monitor's thread
    items,            \* per monitor: what fetch_all_items returned to the
                      \* bootstrap
    new_items,        \* per monitor: identifiers of the for loop not yet reached
    item,             \* per monitor: the Item get_item_info returned last
    rcpt,             \* per monitor: index of the recipient mailed next
    market,           \* marketplace: identifiers listed during the run
    in_stock,         \* marketplace: identifiers currently in stock
    cycle,            \* per monitor, during a poll cycle: first page, Seen-Set
                      \* at its start, identifiers processed so far
    fetched,          \* per monitor: number of get_item_info calls per identifier
    notified,         \* per monitor: number of poll cycles that dispatched it
    alertzy_posts,    \* requests.post calls made: <<monitor, identifier>>
    emails_sent,      \* p.send calls made: <<monitor, identifier, recipient>>
    failures,         \* per monitor: a poll cycle has raised since the last
                      \* poll cycle that completed
    aux,              \* per monitor: push, the value send_notification
                      \* returned for the current item; mail, "failed" when
                      \* send_email_notification raised; interrupted, the
                      \* identifiers that were being processed when a poll
                      \* cycle raised, and unreached, those of its for loop
                      \* not reached, since the last poll cycle that completed
    earlier           \* runs of the process before this one: their number,
                      \* and the <<monitor, identifier>> they dispatched

vars == << FLAGS, gmail_conf, recipients, main_pc, main_i, gmail, alertzy,
           gmail_lock, alertzy_lock, monitors, pc, items, new_items, item,
           rcpt, market, in_stock, cycle, fetched, notified, alertzy_posts, emails_sent,
           failures, aux, earlier >>

config_vars == << FLAGS, gmail_conf, recipients, earlier >>
main_vars == << main_pc, main_i >>
channel_vars == << gmail, alertzy, gmail_lock, alertzy_lock >>
thread_vars == << pc, items, new_items, item, rcpt, cycle, fetched, notified,
                 failures, aux >>
log_vars == << alertzy_posts, emails_sent >>
world_vars == << market, in_stock >>

Configs ==
    [ keywords : KeywordLists, min_prices : PriceLists, max_prices : PriceLists,
      disable_gmail : BOOLEAN, disable_alertzy : BOOLEAN, alertzy_key : BOOLEAN ]

InitWith(flags, conf, n, listed) ==
    /\ FLAGS = flags
    /\ gmail_conf = conf
    /\ recipients = n
    /\ main_pc = "validate"
    /\ main_i = 1
    /\ gmail = "unset"
    /\ alertzy = "unset"
    /\ gmail_lock = 0
    /\ alertzy_lock = 0
    /\ monitors = <<>>
    /\ pc = <<>>
    /\ items = <<>>
    /\ new_items = <<>>
    /\ item = <<>>
    /\ rcpt = <<>>
    /\ market = listed
    /\ in_stock = listed
    /\ cycle = <<>>
    /\ fetched = <<>>
    /\ notified = <<>>
    /\ alertzy_posts = {}
    /\ emails_sent = {}
    /\ failures = <<>>
    /\ aux = <<>>
    /\ earlier = [ restarts |-> 0, notified |-> {} ]

NoAux == [ push |-> "none", mail |-> "none", interrupted |-> {},
           unreached |-> {} ]

NoCycle == [ page |-> {}, seen |-> {}, done |-> {} ]

(* ------------------------------- main() ------------------------------- *)
\* Python's  a < b  on strings (lexicographic)
RECURSIVE StrLess(_, _)
StrLess(a, b) ==
    IF b = <<>> THEN FALSE
    ELSE IF a = <<>> THEN TRUE
    ELSE IF Head(a) # Head(b) THEN Head(a) < Head(b)
    ELSE StrLess(Tail(a), Tail(b))

\* faulty variant: the prices compared as strings, int() forgotten
PriceBelowStr(m1, m2) == StrLess(m1, m2)

\* int(m1) < int(m2)
PriceBelow(m1, m2) == ParseInt(m1) < ParseInt(m2)

\* the two assertions of main(): equal lengths, every min below its max
ConfigAccepted(flags) ==
    /\ Len(flags.min_prices) = Len(flags.max_prices)
    /\ \A k \in 1..ZipLen2(flags.min_prices, flags.max_prices) :
          /\ IsNumeral(flags.min_prices[k])
          /\ IsNumeral(flags.max_prices[k])
          /\ PriceBelow(flags.min_prices[k], flags.max_prices[k])

\* main(), lines 179-180: a failed assertion (or int() raising) ends the process
main_validate ==
    /\ main_pc = "validate"
    /\ main_pc' = IF ConfigAccepted(FLAGS) THEN "gmail" ELSE "rejected"
    /\ UNCHANGED << config_vars, main_i, channel_vars, monitors, thread_vars,
                    world_vars, log_vars >>

\* GMailSender.__init__ with its start-up mail; sent = number of recipients
\* whose p.send succeeded before one failed (sent = recipients: none failed)
GMailSender_init(sent) ==
    IF gmail_conf = "absent"
    THEN /\ gmail' = "off"
         /\ main_pc' = "alertzy"
         /\ UNCHANGED emails_sent
    ELSE IF gmail_conf = "bad_user"
    THEN /\ main_pc' = "crashed"
         /\ UNCHANGED << gmail, emails_sent >>
    ELSE /\ emails_sent' = emails_sent \cup
                { <<0, 0, r>> : r \in 1..(IF sent < recipients THEN sent + 1
                                                               ELSE recipients) }
         /\ IF sent < recipients
            THEN main_pc' = "crashed" /\ UNCHANGED gmail
            ELSE main_pc' = "alertzy" /\ gmail' = "on"

\* main(), line 181
main_gmail ==
    /\ main_pc = "gmail"
    /\ IF FLAGS.disable_gmail
       THEN gmail' = "None" /\ main_pc' = "alertzy" /\ UNCHANGED emails_sent
       ELSE \E sent \in 0..recipients : GMailSender_init(sent)
    /\ UNCHANGED << config_vars, main_i, alertzy, gmail_lock, alertzy_lock,
                    monitors, thread_vars, world_vars, alertzy_posts >>

\* faulty variant: use_module stays True when no key is given
AlertzyInitKeyIgnored ==
    alertzy' = "on" /\ alertzy_posts' = alertzy_posts \cup { <<0, 0>> }

\* Alertzy.__init__ with its start-up notification (a failed post is swallowed)
Alertzy_init ==
    IF ~FLAGS.alertzy_key
    THEN alertzy' = "off" /\ UNCHANGED alertzy_posts
    ELSE alertzy' = "on" /\ alertzy_posts' = alertzy_posts \cup { <<0, 0>> }

\* main(), line 182
main_alertzy ==
    /\ main_pc = "alertzy"
    /\ IF FLAGS.disable_alertzy
       THEN alertzy' = "None" /\ UNCHANGED alertzy_posts
       ELSE Alertzy_init
    /\ main_pc' = "construct"
    /\ UNCHANGED << config_vars, main_i, gmail, gmail_lock, alertzy_lock,
                    monitors, thread_vars, world_vars, emails_sent >>

\* MonitorKeyword.__init__
MonitorKeyword_init(keyword, price_min, price_max) ==
    [ keyword |-> keyword, price_min |-> price_min, price_max |-> price_max,
      persisted_items |-> <<>> ]

\* number of monitors main() builds: zip stops at the shortest list
NumMonitors(flags) == ZipLen3(flags.keywords, flags.min_prices, flags.max_prices)

\* main(), lines 183-185
main_construct ==
    /\ main_pc = "construct"
    /\ LET n == NumMonitors(FLAGS) IN
         /\ monitors' = [ k \in 1..n |->
                MonitorKeyword_init(Strip(FLAGS.keywords[k]),
                                    FLAGS.min_prices[k], FLAGS.max_prices[k]) ]
         /\ pc' = [ k \in 1..n |-> "unstarted" ]
         /\ items' = [ k \in 1..n |-> <<>> ]
         /\ new_items' = [ k \in 1..n |-> {} ]
         /\ item' = [ k \in 1..n |-> NoItem ]
         /\ rcpt' = [ k \in 1..n |-> 0 ]
         /\ cycle' = [ k \in 1..n |-> NoCycle ]
         /\ fetched' = [ k \in 1..n |-> [ i \in Ids |-> 0 ] ]
         /\ notified' = [ k \in 1..n |-> [ i \in Ids |-> 0 ] ]
         /\ failures' = [ k \in 1..n |-> FALSE ]
         /\ aux' = [ k \in 1..n |-> NoAux ]
    /\ main_pc' = "start"
    /\ main_i' = 1
    /\ UNCHANGED << config_vars, channel_vars, world_vars, log_vars >>

\* MonitorKeyword.start_monitoring, called by main() for each monitor in turn
start_monitoring ==
    /\ main_pc = "start"
    /\ main_i <= Len(monitors)
    /\ pc' = [ pc EXCEPT ![main_i] = "boot" ]
    /\ main_i' = main_i + 1
    /\ UNCHANGED << items, config_vars, main_pc, channel_vars, monitors, new_items,
                    item, rcpt, cycle, fetched, notified, failures, aux,
                    world_vars, log_vars >>

\* MonitorKeyword.join, called by main() for each monitor in turn: returns
\* when that thread has ended; after the last one main() returns
join ==
    \/ /\ main_pc = "start"
       /\ main_i > Len(monitors)
       /\ main_pc' = "join"
       /\ main_i' = 1
       /\ UNCHANGED << config_vars, channel_vars, monitors, thread_vars,
                       world_vars, log_vars >>
    \/ /\ main_pc = "join"
       /\ main_i <= Len(monitors)
       /\ pc[main_i] = "dead"
       /\ main_i' = main_i + 1
       /\ UNCHANGED << config_vars, main_pc, channel_vars, monitors,
                       thread_vars, world_vars, log_vars >>
    \/ /\ main_pc = "join"
       /\ main_i > Len(monitors)
       /\ main_pc' = "exited"
       /\ UNCHANGED << config_vars, main_i, channel_vars, monitors,
                       thread_vars, world_vars, log_vars >>

\* the process lives until main() returns or raises (the threads are daemons)
ProcessAlive == main_pc \notin {"rejected", "crashed", "exited"}

(* --------------------------- MonitorKeyword --------------------------- *)
Threads == 1..Len(monitors)

persisted_items(m) == monitors[m].persisted_items

\* faulty variant: the last identifier of the snapshot is lost
ExtendDropLast(persisted, more) ==
    persisted \o SubSeq(more, 1, Len(more) - 1)

\* faulty variant: the bootstrap result is not recorded
ExtendNothing(persisted, more) == persisted

\* self.persisted_items.extend(items)
Extend(persisted, more) == persisted \o more

\* faulty variant: the list is overwritten instead of appended to
PersistOverwrite(persisted, new_item) == << new_item >>

\* faulty variant: the new identifier is not remembered
PersistNothing(persisted, new_item) == persisted

\* self.persisted_items.append(new_item)
Persist(persisted, new_item) == Append(persisted, new_item)

\* faulty variant: the first page is not diffed against the Seen-Set
NewItemsNoDiff(items_on_first_page, persisted) == items_on_first_page

\* faulty variant: the difference is taken the wrong way round
NewItemsReversed(items_on_first_page, persisted) ==
    Range(persisted) \ items_on_first_page

\* faulty variant: persisted_items is one list shared by every monitor
NewItemsShared(items_on_first_page, persisted) ==
    items_on_first_page \
        UNION { Range(monitors[k].persisted_items) : k \in Threads }

\* new_items = set(items_on_first_page) - set(self.persisted_items)
NewItems(items_on_first_page, persisted) ==
    items_on_first_page \ Range(persisted)

\* faulty variant: the stock status is not looked at
QualifiesIgnoringStock(keyword, it) ==
    /\ Contains(Lower(keyword), Lower(it.name))
    /\ it.is_new

\* the condition of line 139
Qualifies(keyword, it) ==
    /\ Contains(Lower(keyword), Lower(it.name))
    /\ it.is_new
    /\ it.in_stock

\* faulty variant: the exception is not caught by _run and ends the thread
RaiseUncaught(m) ==
    /\ pc' = [ pc EXCEPT ![m] = "dead" ]
    /\ new_items' = [ new_items EXCEPT ![m] = {} ]
    /\ failures' = [ failures EXCEPT ![m] = TRUE ]

\* an exception leaves check_for_new_items: _run logs it and sleeps 30 s
Raise(m) ==
    /\ pc' = [ pc EXCEPT ![m] = "cooldown" ]
    /\ new_items' = [ new_items EXCEPT ![m] = {} ]
    /\ failures' = [ failures EXCEPT ![m] = TRUE ]

\* scrape_outstanding_items, called once by _run outside its try block:
\* an exception of fetch_all_items ends the thread
scrape_outstanding_items(m) ==
    /\ ProcessAlive
    /\ pc[m] = "boot"
    /\ \/ \E found \in Snapshots(market) :
            /\ items' = [ items EXCEPT ![m] = found ]
            /\ monitors' = [ monitors EXCEPT ![m].persisted_items =
                                Extend(@, found) ]
            /\ pc' = [ pc EXCEPT ![m] = "booted" ]
       \/ /\ pc' = [ pc EXCEPT ![m] = "dead" ]
          /\ UNCHANGED << monitors, items >>
    /\ UNCHANGED << config_vars, main_vars, channel_vars, new_items, item,
                    rcpt, cycle, fetched, notified, failures, aux, world_vars,
                    log_vars >>

\* _run, line 167, and check_for_new_items, lines 129-134: after the sleep,
\* the first-page fetch and the diff
fetch_items_pagination(m) ==
    /\ ProcessAlive
    /\ pc[m] \in {"booted", "sleep"}
    /\ \/ \E page \in SUBSET market :
            /\ new_items' = [ new_items EXCEPT ![m] =
                                NewItems(page, persisted_items(m)) ]
            /\ cycle' = [ cycle EXCEPT ![m] =
                            [ page |-> page,
                              seen |-> Range(persisted_items(m)),
                              done |-> {} ] ]
            /\ pc' = [ pc EXCEPT ![m] = "loop" ]
            /\ UNCHANGED failures
       \/ /\ Raise(m)
          /\ cycle' = [ cycle EXCEPT ![m] =
                          [ page |-> {},
                            seen |-> Range(persisted_items(m)),
                            done |-> {} ] ]
    /\ UNCHANGED << items, config_vars, main_vars, channel_vars, monitors,
                    item, rcpt, fetched, notified, aux, world_vars, log_vars >>

\* faulty variant: the identifier is appended only after its detail fetch
\* has returned
SeenAfterRaiseLate(m, new_item) == persisted_items(m)

\* faulty variant: every new identifier of the cycle is appended before the
\* for loop begins
SeenAfterRaiseAll(m, new_item) ==
    persisted_items(m) \o (CHOOSE p \in Perms(new_items[m]) : TRUE)

\* lines 137-138: the append precedes get_item_info, so the Seen-Set holds
\* the identifier when get_item_info raises
SeenAfterRaise(m, new_item) == Persist(persisted_items(m), new_item)

\* check_for_new_items, lines 135-144: one pass of the for loop up to the
\* dispatch; the set is iterated in no particular order
get_item_info(m) ==
    /\ ProcessAlive
    /\ pc[m] = "loop"
    /\ \E new_item \in new_items[m] :
         /\ cycle' = [ cycle EXCEPT ![m].done = @ \cup {new_item} ]
         /\ fetched' = [ fetched EXCEPT ![m][new_item] = @ + 1 ]
         /\ \/ \E is_new \in BOOLEAN :
                 LET it == [ id |-> new_item, name |-> ItemName(new_item),
                             is_new |-> is_new,
                             in_stock |-> new_item \in in_stock ]
                 IN /\ monitors' = [ monitors EXCEPT ![m].persisted_items =
                                        Persist(@, new_item) ]
                    /\ item' = [ item EXCEPT ![m] = it ]
                    /\ new_items' = [ new_items EXCEPT ![m] = @ \ {new_item} ]
                    /\ aux' = [ aux EXCEPT ![m].push = "none",
                                           ![m].unreached = @ \ {new_item} ]
                    /\ UNCHANGED failures
                    /\ IF Qualifies(monitors[m].keyword, it)
                       THEN /\ pc' = [ pc EXCEPT ![m] = "alertzy" ]
                            /\ notified' = [ notified EXCEPT ![m][new_item] = @ + 1 ]
                       ELSE UNCHANGED << pc, notified >>
            \/ /\ monitors' = [ monitors EXCEPT ![m].persisted_items =
                                   SeenAfterRaise(m, new_item) ]
               /\ Raise(m)
               /\ aux' = [ aux EXCEPT
                             ![m].push = "none",
                             ![m].interrupted = @ \cup {new_item},
                             ![m].unreached = (@ \cup new_items[m]) \ {new_item} ]
               /\ UNCHANGED << item, notified >>
    /\ UNCHANGED << items, config_vars, main_vars, channel_vars, rcpt, world_vars,
                    log_vars >>

\* check_for_new_items returns when the for loop is exhausted (its locals
\* are gone); _run goes on to the next sleep(60)
end_of_cycle(m) ==
    /\ ProcessAlive
    /\ pc[m] = "loop"
    /\ new_items[m] = {}
    /\ pc' = [ pc EXCEPT ![m] = "sleep" ]
    /\ item' = [ item EXCEPT ![m] = NoItem ]
    /\ cycle' = [ cycle EXCEPT ![m] = NoCycle ]
    /\ failures' = [ failures EXCEPT ![m] = FALSE ]
    /\ aux' = [ aux EXCEPT ![m] = NoAux ]
    /\ UNCHANGED << items, config_vars, main_vars, channel_vars, monitors, new_items,
                    rcpt, fetched, notified, world_vars, log_vars >>

\* faulty variant: the lock is not waited for
CanAcquireAlways(lock) == TRUE

\* with self.lock: the thread goes on only when the lock is free
CanAcquire(lock) == lock = 0

\* lines 145-152 and Alertzy.send_notification up to taking the lock
send_notification_enter(m) ==
    /\ ProcessAlive
    /\ pc[m] = "alertzy"
    /\ IF alertzy = "on"
       THEN /\ CanAcquire(alertzy_lock)
            /\ alertzy_lock' = m
            /\ pc' = [ pc EXCEPT ![m] = "alertzy_post" ]
       ELSE /\ pc' = [ pc EXCEPT ![m] = "gmail" ]
            /\ UNCHANGED alertzy_lock
    /\ UNCHANGED << items, config_vars, main_vars, gmail, alertzy, gmail_lock,
                    monitors, new_items, item, rcpt, cycle, fetched, notified,
                    failures, aux, world_vars, log_vars >>

\* Alertzy.send_notification, lines 45-53: the call returns ok to
\* check_for_new_items, which goes on to the email dispatch
PostReturns(m, ok) ==
    /\ pc' = [ pc EXCEPT ![m] = "gmail" ]
    /\ aux' = [ aux EXCEPT ![m].push = IF ok THEN "True" ELSE "False" ]
    /\ UNCHANGED << new_items, failures >>

\* faulty variant: the exception of requests.post is not caught
PostFailureRaises(m) ==
    /\ Raise(m)
    /\ aux' = [ aux EXCEPT ![m].push = "False" ]

\* lines 51-52: except Exception: return False
PostFailure(m) == PostReturns(m, FALSE)

\* Alertzy.send_notification, lines 42-53: the post under the lock; an
\* exception of requests.post is swallowed (the call returns False)
send_notification_post(m) ==
    /\ ProcessAlive
    /\ pc[m] = "alertzy_post"
    /\ alertzy_posts' = alertzy_posts \cup { <<m, item[m].id>> }
    /\ alertzy_lock' = 0
    /\ \/ PostReturns(m, TRUE)
       \/ PostFailure(m)
    /\ UNCHANGED << items, config_vars, main_vars, gmail, alertzy, gmail_lock,
                    monitors, item, rcpt, cycle, fetched, notified,
                    world_vars, emails_sent >>

\* lines 153-155 and GMailSender.send_email_notification up to taking the lock
send_email_notification_enter(m) ==
    /\ ProcessAlive
    /\ pc[m] = "gmail"
    /\ IF gmail = "on"
       THEN /\ CanAcquire(gmail_lock)
            /\ gmail_lock' = m
            /\ rcpt' = [ rcpt EXCEPT ![m] = 1 ]
            /\ pc' = [ pc EXCEPT ![m] = "gmail_send" ]
       ELSE /\ pc' = [ pc EXCEPT ![m] = "loop" ]
            /\ UNCHANGED << gmail_lock, rcpt >>
    /\ UNCHANGED << items, config_vars, main_vars, gmail, alertzy, alertzy_lock,
                    monitors, new_items, item, cycle, fetched, notified,
                    failures, aux, world_vars, log_vars >>

\* what the failed cycle leaves behind: the identifier that was being
\* dispatched and the identifiers of the for loop not reached
MailFailureNoted(m) ==
    aux' = [ aux EXCEPT ![m].mail = "failed",
                        ![m].interrupted = @ \cup {item[m].id},
                        ![m].unreached = @ \cup new_items[m] ]

\* faulty variant: the failed delivery is swallowed like a failed post
MailFailureSwallowed(m) ==
    /\ aux' = [ aux EXCEPT ![m].mail = "failed" ]
    /\ UNCHANGED << new_items, failures >>
    /\ IF rcpt[m] < recipients
       THEN /\ rcpt' = [ rcpt EXCEPT ![m] = @ + 1 ]
            /\ UNCHANGED << gmail_lock, pc >>
       ELSE /\ rcpt' = [ rcpt EXCEPT ![m] = 0 ]
            /\ gmail_lock' = 0
            /\ pc' = [ pc EXCEPT ![m] = "loop" ]

\* faulty variant: the lock is taken and released by hand, and the
\* exception skips the release
MailFailureKeepsLock(m) ==
    /\ rcpt' = [ rcpt EXCEPT ![m] = 0 ]
    /\ UNCHANGED gmail_lock
    /\ Raise(m)
    /\ MailFailureNoted(m)

\* lines 85-95: p.send raising or  assert r.ok  failing leaves the with
\* block, which releases the lock, and the exception reaches _run
MailFailure(m) ==
    /\ rcpt' = [ rcpt EXCEPT ![m] = 0 ]
    /\ gmail_lock' = 0
    /\ Raise(m)
    /\ MailFailureNoted(m)

\* GMailSender.send_email_notification, lines 84-95: one recipient
send_email_notification_send(m) ==
    /\ ProcessAlive
    /\ pc[m] = "gmail_send"
    /\ emails_sent' = emails_sent \cup { <<m, item[m].id, rcpt[m]>> }
    /\ \/ /\ rcpt[m] < recipients
          /\ rcpt' = [ rcpt EXCEPT ![m] = @ + 1 ]
          /\ UNCHANGED << gmail_lock, pc, new_items, failures, aux >>
       \/ /\ rcpt[m] = recipients
          /\ rcpt' = [ rcpt EXCEPT ![m] = 0 ]
          /\ gmail_lock' = 0
          /\ pc' = [ pc EXCEPT ![m] = "loop" ]
          /\ UNCHANGED << new_items, failures, aux >>
       \/ MailFailure(m)
    /\ UNCHANGED << items, config_vars, main_vars, gmail, alertzy, alertzy_lock,
                    monitors, item, cycle, fetched, notified, world_vars,
                    alertzy_posts >>

\* _run, lines 170-172: after the exception handler's sleep(30) the while
\* loop goes on (the locals of the failed call are gone)
cooldown(m) ==
    /\ ProcessAlive
    /\ pc[m] = "cooldown"
    /\ pc' = [ pc EXCEPT ![m] = "sleep" ]
    /\ item' = [ item EXCEPT ![m] = NoItem ]
    /\ cycle' = [ cycle EXCEPT ![m] = NoCycle ]
    /\ aux' = [ aux EXCEPT ![m].push = "none", ![m].mail = "none" ]
    /\ UNCHANGED << items, config_vars, main_vars, channel_vars, monitors, new_items,
                    rcpt, fetched, notified, failures, world_vars, log_vars >>

(* ---------------------------- marketplace ----------------------------- *)
\* a listing goes out of stock or comes back while a monitor is waiting
stock_change ==
    /\ ProcessAlive
    /\ \E m \in Threads : pc[m] \in {"booted", "sleep", "cooldown"}
    /\ \E i \in market :
         in_stock' = IF i \in in_stock THEN in_stock \ {i} ELSE in_stock \cup {i}
    /\ UNCHANGED << config_vars, main_vars, channel_vars, monitors,
                    thread_vars, market, log_vars >>

Next ==
    \/ main_validate
    \/ main_gmail
    \/ main_alertzy
    \/ main_construct
    \/ start_monitoring
    \/ join
    \/ \E m \in Threads : scrape_outstanding_items(m)
    \/ \E m \in Threads : fetch_items_pagination(m)
    \/ \E m \in Threads : get_item_info(m)
    \/ \E m \in Threads : send_notification_enter(m)
    \/ \E m \in Threads : send_notification_post(m)
    \/ \E m \in Threads : send_email_notification_enter(m)
    \/ \E m \in Threads : send_email_notification_send(m)
    \/ \E m \in Threads : end_of_cycle(m)
    \/ \E m \in Threads : cooldown(m)
    \/ stock_change

(* --------------------------- specifications --------------------------- *)
\* channel settings: a disabled channel's other settings do not matter
ChannelSettings(flags, conf, n) ==
    /\ flags.disable_gmail => conf = "absent"
    /\ conf # "ok" => n = 1
    /\ flags.disable_alertzy => ~flags.alertzy_key

\* one keyword with an accepted price range, every listing of the market
MonitorConfigs ==
    { f \in Configs : /\ f.keywords = << <<"s", "w">> >>
                      /\ f.min_prices = << <<5>> >>
                      /\ f.max_prices = << <<1, 0>> >> }

Init ==
    \E flags \in MonitorConfigs, conf \in GmailConfStates,
       n \in 1..MaxRecipients :
        /\ ChannelSettings(flags, conf, n)
        /\ InitWith(flags, conf, n, Ids)

Spec == Init /\ [][Next]_vars

\* every configuration of the flags, a market of one listing
InitMain ==
    \E flags \in Configs, conf \in GmailConfStates, n \in 1..MaxRecipients :
        /\ ChannelSettings(flags, conf, n)
        /\ InitWith(flags, conf, n, {1})

SpecMain == InitMain /\ [][Next]_vars

(* ------------------------------ restart ------------------------------- *)
\* the process is ended after every monitor has made its bootstrap, and the
\* script is run again with the same flags on the same marketplace: every
\* object is built anew, nothing of the earlier run is read back
restart ==
    /\ earlier.restarts < MaxRestarts
    /\ Threads # {}
    /\ \A m \in Threads : pc[m] \notin {"unstarted", "boot"}
    /\ earlier' = [ restarts |-> earlier.restarts + 1,
                    notified |-> earlier.notified \cup
                        { e \in Threads \X Ids : notified[e[1]][e[2]] > 0 } ]
    /\ main_pc' = "validate"
    /\ main_i' = 1
    /\ gmail' = "unset"
    /\ alertzy' = "unset"
    /\ gmail_lock' = 0
    /\ alertzy_lock' = 0
    /\ monitors' = <<>>
    /\ pc' = <<>>
    /\ items' = <<>>
    /\ new_items' = <<>>
    /\ item' = <<>>
    /\ rcpt' = <<>>
    /\ cycle' = <<>>
    /\ fetched' = <<>>
    /\ notified' = <<>>
    /\ failures' = <<>>
    /\ aux' = <<>>
    /\ alertzy_posts' = {}
    /\ emails_sent' = {}
    /\ UNCHANGED << FLAGS, gmail_conf, recipients, world_vars >>

NextRestart == Next \/ restart

\* one keyword with an accepted price range, both channels in use, one
\* recipient
RestartConfigs ==
    { f \in MonitorConfigs : /\ ~f.disable_gmail
                             /\ ~f.disable_alertzy
                             /\ f.alertzy_key }

InitRestart ==
    \E flags \in RestartConfigs : InitWith(flags, "ok", 1, Ids)

SpecRestart == InitRestart /\ [][NextRestart]_vars

\* two keywords that both match the one listing of the market, accepted
\* prices, both channels in use
ConcConfigs ==
    [ keywords : { << <<"s", "w">>, <<" ", "S", "w", " ">> >> },
      min_prices : { << <<5>>, <<5>> >> },
      max_prices : { << <<1, 0>>, <<1, 0>> >> },
      disable_gmail : {FALSE}, disable_alertzy : {FALSE},
      alertzy_key : {TRUE} ]

InitConc ==
    \E flags \in ConcConfigs, n \in 1..MaxRecipients :
        InitWith(flags, "ok", n, {1})

SpecConc == InitConc /\ [][Next]_vars

\* the threads of the two monitors
ConcThreads == DOMAIN (CHOOSE f \in ConcConfigs : TRUE).keywords

\* a thread inside a transport section finishes its call; a thread waiting
\* for a lock gets it when the lock is free again and again (the holder
\* sleeps 60 s or more before it asks for the lock again)
FairConc ==
    /\ SpecConc
    /\ \A m \in ConcThreads :
          /\ WF_vars(m \in Threads /\ send_notification_post(m))
          /\ WF_vars(m \in Threads /\ send_email_notification_send(m))
          /\ SF_vars(m \in Threads /\ send_notification_enter(m))
          /\ SF_vars(m \in Threads /\ send_email_notification_enter(m))

(* ------------------------------- claims ------------------------------- *)
\* positions of a monitor's thread inside a dispatch
Dispatching == {"alertzy", "alertzy_post", "gmail", "gmail_send"}

\* item notifications of monitor m that reached a channel's transport
PostsOf(m) == { e \in alertzy_posts : e[1] = m }
MailsOf(m) == { e \in emails_sent : e[1] = m }

\* C1: an identifier is notified in at most one poll cycle of a monitor, and
\* every push or email sent for it belongs to that one cycle, however often
\* later first pages return it.
C1_NotifiedAtMostOnce ==
    \A m \in Threads :
        /\ \A i \in Ids : notified[m][i] <= 1
        /\ \A e \in PostsOf(m) \cup MailsOf(m) : notified[m][e[2]] = 1

\* an identifier already notified is on the first page of a later poll
C1_Witness ==
    \E m \in Threads, i \in Ids :
        /\ notified[m][i] = 1
        /\ pc[m] = "loop"
        /\ i \in cycle[m].page
        /\ i \in cycle[m].seen
        /\ new_items[m] = {}

\* C2: no step of a monitor (bootstrap, poll cycle, failure) removes an
\* identifier from its Seen-Set or makes the Seen-Set shorter.
C2_SeenSetMonotone ==
    [][ \A m \in Threads :
          /\ Range(monitors[m].persisted_items)
                \subseteq Range(monitors'[m].persisted_items)
          /\ Len(monitors[m].persisted_items)
                <= Len(monitors'[m].persisted_items) ]_vars

\* the Seen-Set has grown by bootstrap and by a poll, and a cycle has failed
C2_Witness ==
    \E m \in Threads :
        /\ Len(monitors[m].persisted_items) >= 2
        /\ cycle[m].seen # {}
        /\ cycle[m].done # {}
        /\ pc[m] = "cooldown"

\* C3: right after bootstrap, before the first poll, the Seen-Set holds
\* exactly the identifiers of the snapshot fetch_all_items returned, and the
\* monitor has fetched no detail and sent no notification.
C3_Bootstrap ==
    \A m \in Threads :
        pc[m] = "booted" =>
            /\ monitors[m].persisted_items = items[m]
            /\ Cardinality(Range(monitors[m].persisted_items)) = Len(items[m])
            /\ \A i \in Ids : notified[m][i] = 0 /\ fetched[m][i] = 0
            /\ PostsOf(m) = {}
            /\ MailsOf(m) = {}

\* a monitor has bootstrapped with a snapshot of every listing
C3_Witness ==
    \E m \in Threads : pc[m] = "booted" /\ Len(items[m]) = NumIds

\* C4 as stated: at the end of every poll cycle, completed or raised, the
\* identifiers processed are exactly P minus S and the Seen-Set covers P and S.
C4_Original ==
    \A m \in Threads :
        (pc[m] = "cooldown" \/ (pc[m] = "loop" /\ new_items[m] = {})) =>
            /\ cycle[m].done = cycle[m].page \ cycle[m].seen
            /\ (cycle[m].page \cup cycle[m].seen)
                  \subseteq Range(monitors[m].persisted_items)

\* C4, amended: in every poll cycle only identifiers of P minus S are
\* processed and added to the Seen-Set; while the cycle has not raised, those
\* processed and those still to come are exactly P minus S; when the for loop
\* is exhausted all of P minus S has been processed and the Seen-Set covers
\* P and S.
C4_NewIsPageMinusSeen ==
    \A m \in Threads :
        pc[m] \in Dispatching \cup {"loop", "cooldown"} =>
            LET P == cycle[m].page
                S == cycle[m].seen
                D == cycle[m].done
            IN /\ D \subseteq P \ S
               /\ Range(monitors[m].persisted_items) = S \cup D
               /\ pc[m] # "cooldown" =>
                     /\ D \cup new_items[m] = P \ S
                     /\ D \cap new_items[m] = {}
               /\ (pc[m] = "loop" /\ new_items[m] = {}) =>
                     /\ D = P \ S
                     /\ (P \cup S) \subseteq Range(monitors[m].persisted_items)

\* a completed cycle whose first page held a seen and a new identifier, the
\* new one not qualifying
C4_Witness ==
    \E m \in Threads :
        /\ pc[m] = "loop"
        /\ new_items[m] = {}
        /\ cycle[m].page \cap cycle[m].seen # {}
        /\ \E i \in cycle[m].done : notified[m][i] = 0

\* the three conditions of the match predicate, spelled out on an Item
KeywordInName(keyword, name) ==
    \E k \in 0..(Len(name) - Len(keyword)) :
        \A j \in 1..Len(keyword) : LowerChar(name[k + j]) = LowerChar(keyword[j])
ThreeConditions(m) ==
    /\ KeywordInName(monitors[m].keyword, item[m].name)
    /\ item[m].is_new = TRUE
    /\ item[m].in_stock = TRUE

\* C5: the item a monitor has just fetched is dispatched if and only if the
\* keyword is a case-insensitive substring of its name, it is new and it is
\* in stock; an item failing one of the three reaches no channel, and one
\* passing all three has reached every enabled channel when its dispatch
\* returns.
C5_MatchPredicate ==
    \A m \in Threads :
        item[m] # NoItem =>
            LET i == item[m].id IN
            /\ notified[m][i] = 1 <=> ThreeConditions(m)
            /\ pc[m] \in Dispatching => ThreeConditions(m)
            /\ ~ThreeConditions(m) =>
                  /\ <<m, i>> \notin alertzy_posts
                  /\ \A r \in 1..recipients : <<m, i, r>> \notin emails_sent
            /\ (ThreeConditions(m) /\ pc[m] = "loop") =>
                  /\ alertzy = "on" => <<m, i>> \in alertzy_posts
                  /\ gmail = "on" =>
                        \A r \in 1..recipients : <<m, i, r>> \in emails_sent

\* an item whose name holds the keyword in another case, new but out of
\* stock, has been fetched and not dispatched
C5_Witness ==
    \E m \in Threads :
        /\ item[m] # NoItem
        /\ Contains(monitors[m].keyword, item[m].name) = FALSE
        /\ KeywordInName(monitors[m].keyword, item[m].name)
        /\ item[m].is_new
        /\ ~item[m].in_stock
        /\ notified[m][item[m].id] = 0
        /\ pc[m] = "loop"

\* C6: an identifier whose detail was fetched without a notification is in
\* the Seen-Set, and no later step fetches its detail again or notifies it,
\* whatever happens to its stock status.
C6_NeverRechecked ==
    [][ \A m \in Threads, i \in Ids :
          (fetched[m][i] >= 1 /\ notified[m][i] = 0) =>
              /\ i \in Range(monitors[m].persisted_items)
              /\ i \in Range(monitors'[m].persisted_items)
              /\ fetched'[m][i] = fetched[m][i]
              /\ notified'[m][i] = 0 ]_vars

\* an identifier that was fetched and not notified is in stock now, carries
\* the keyword, and is on the first page of a later poll
C6_Witness ==
    \E m \in Threads, i \in Ids :
        /\ fetched[m][i] = 1
        /\ notified[m][i] = 0
        /\ i \in in_stock
        /\ KeywordInName(monitors[m].keyword, ItemName(i))
        /\ pc[m] = "loop"
        /\ new_items[m] = {}
        /\ i \in cycle[m].page
        /\ i \in cycle[m].seen

\* C7: after a poll cycle has raised, the process and the monitor's thread
\* are alive, the thread is in its loop, and its next step (the cool-down,
\* then the next first-page fetch) is enabled.
C7_LoopSurvives ==
    \A m \in Threads :
        failures[m] =>
            /\ ProcessAlive
            /\ pc[m] \in Dispatching \cup {"cooldown", "sleep", "loop"}
            /\ pc[m] = "cooldown" => ENABLED cooldown(m)
            /\ pc[m] = "sleep" => ENABLED fetch_items_pagination(m)

\* the poll after a failed one has processed a new identifier
C7_Witness ==
    \E m \in Threads :
        /\ failures[m]
        /\ pc[m] = "loop"
        /\ cycle[m].done # {}

\* the price lists of the flags have equal lengths and every minimum is, as
\* a number, below its maximum
PricesValid ==
    /\ Len(FLAGS.min_prices) = Len(FLAGS.max_prices)
    /\ \A k \in 1..Len(FLAGS.min_prices) :
          /\ IsNumeral(FLAGS.min_prices[k])
          /\ IsNumeral(FLAGS.max_prices[k])
          /\ ParseInt(FLAGS.max_prices[k]) - ParseInt(FLAGS.min_prices[k]) >= 1

\* nothing has happened but the validation: no channel object, no message
\* to a channel's transport, no monitor
NothingBegun ==
    /\ main_pc \in {"validate", "rejected"}
    /\ gmail = "unset"
    /\ alertzy = "unset"
    /\ alertzy_posts = {}
    /\ emails_sent = {}
    /\ monitors = <<>>

AllStarted == \A m \in Threads : pc[m] # "unstarted"

C9_Original ==
    (main_pc \notin {"validate", "rejected"} /\ gmail_conf # "bad_user") =>
        /\ main_pc \notin {"crashed", "exited"}
        /\ \A m \in Threads : pc[m] # "dead"

\* C10 as stated: once main() has built the monitors there is one per
\* keyword, the i-th with the i-th keyword (stripped) and the i-th prices, and
\* when main() joins them every one has been started.
C10_Original ==
    main_pc \in {"start", "join", "exited"} =>
        /\ Len(monitors) = Len(FLAGS.keywords)
        /\ \A k \in 1..Len(monitors) :
              /\ monitors[k].keyword = Strip(FLAGS.keywords[k])
              /\ monitors[k].price_min = FLAGS.min_prices[k]
              /\ monitors[k].price_max = FLAGS.max_prices[k]
        /\ main_pc \in {"join", "exited"} => AllStarted

\* a channel is disabled by its toggle, by the missing push key or by the
\* missing gmail_conf.json
PushDisabled == FLAGS.disable_alertzy \/ ~FLAGS.alertzy_key
MailDisabled == FLAGS.disable_gmail \/ gmail_conf = "absent"

\* C11: a disabled channel is never contacted; a monitor that reaches a
\* disabled channel while dispatching a qualifying item can always go on, goes
\* on to the next channel (push, then email, then the for loop) without an
\* exception, and enters the other channel when that one is enabled.
C11_ChannelsOptional ==
    [][ /\ PushDisabled => alertzy_posts' = {}
        /\ MailDisabled => emails_sent' = {}
        /\ \A m \in Threads :
             /\ (pc[m] = "alertzy" /\ PushDisabled) =>
                   /\ ENABLED send_notification_enter(m)
                   /\ pc'[m] \in {"alertzy", "gmail"}
             /\ (pc[m] = "gmail" /\ MailDisabled) =>
                   /\ ENABLED send_email_notification_enter(m)
                   /\ pc'[m] \in {"gmail", "loop"}
             /\ (pc[m] = "alertzy" /\ ~PushDisabled) =>
                   pc'[m] \in {"alertzy", "alertzy_post"}
             /\ (pc[m] = "gmail" /\ ~MailDisabled) =>
                   pc'[m] \in {"gmail", "gmail_send"}
             /\ pc[m] \in {"alertzy", "gmail"} =>
                   failures'[m] = failures[m] ]_vars

\* a qualifying item has been dispatched with the push channel disabled:
\* nothing was posted, every recipient was mailed, nothing was raised
C11_Witness ==
    \E m \in Threads :
        /\ PushDisabled
        /\ ~MailDisabled
        /\ pc[m] = "loop"
        /\ item[m].id # 0
        /\ notified[m][item[m].id] = 1
        /\ alertzy_posts = {}
        /\ \A r \in 1..recipients : <<m, item[m].id, r>> \in emails_sent
        /\ ~failures[m]

\* every recipient of gmail_conf.json has been mailed about identifier i
MailedAll(m, i) == \A r \in 1..recipients : <<m, i, r>> \in emails_sent

\* C12: a failed push for a qualifying item is followed by the email dispatch
\* for the same item (the monitor goes on to the email channel and, if the
\* mails succeed, every recipient is mailed); a failed email dispatch comes
\* after the push for that item was posted; neither ends the thread: only the
\* email failure reaches the cool-down, from which the loop goes on.
C12_ChannelFailuresIsolated ==
    \A m \in Threads :
        /\ aux[m].push = "False" =>
              /\ pc[m] \in {"gmail", "gmail_send", "loop", "cooldown"}
              /\ (pc[m] = "gmail" /\ gmail_lock = 0) =>
                    ENABLED send_email_notification_enter(m)
              /\ (pc[m] = "loop" /\ gmail = "on") => MailedAll(m, item[m].id)
              /\ pc[m] = "cooldown" => aux[m].mail = "failed"
        /\ aux[m].mail = "failed" =>
              /\ pc[m] = "cooldown"
              /\ ENABLED cooldown(m)
              /\ alertzy = "on" => <<m, item[m].id>> \in alertzy_posts

\* the push for an item failed and every recipient was then mailed about it
C12_Witness ==
    \E m \in Threads :
        /\ aux[m].push = "False"
        /\ gmail = "on"
        /\ pc[m] = "loop"
        /\ MailedAll(m, item[m].id)

\* C13: the detail of an identifier is fetched only in a step that puts it in
\* the Seen-Set, also when the fetch raises; once an identifier is in the
\* Seen-Set no step fetches its detail again or starts another dispatch for
\* it, and a cycle that raised leaves every identifier it touched in the
\* Seen-Set with at most one fetch and at most one dispatch.
C13_AtMostOnce ==
    [][ \A m \in Threads : \A i \in Ids :
          /\ fetched'[m][i] # fetched[m][i] =>
                i \in Range(monitors'[m].persisted_items)
          /\ i \in Range(monitors[m].persisted_items) =>
                /\ fetched'[m][i] = fetched[m][i]
                /\ notified'[m][i] = notified[m][i]
          /\ pc'[m] = "cooldown" =>
                \A j \in cycle'[m].done :
                    /\ j \in Range(monitors'[m].persisted_items)
                    /\ fetched'[m][j] = 1
                    /\ notified'[m][j] <= 1 ]_vars

\* the detail fetch of an identifier raised, and a later poll cycle whose
\* first page returned it has completed without fetching or notifying it
C13_Witness ==
    \E m \in Threads : \E i \in Ids :
        /\ i \in aux[m].interrupted
        /\ notified[m][i] = 0
        /\ fetched[m][i] = 1
        /\ pc[m] = "loop"
        /\ new_items[m] = {}
        /\ i \in cycle[m].page
        /\ i \in cycle[m].seen

\* a poll cycle of monitor m has completed (the for loop is exhausted)
CycleCompleted(m) == pc[m] = "loop" /\ new_items[m] = {}

\* C14 as stated: when a poll cycle completes after one that raised, every
\* identifier the failed cycle left un-notified (the one being processed and
\* those not reached) that is on its first page has been processed in it.
C14_Original ==
    \A m \in Threads :
        CycleCompleted(m) =>
            \A i \in (aux[m].interrupted \cup aux[m].unreached) \cap cycle[m].page :
                notified[m][i] = 0 => i \in cycle[m].done

\* C14, amended: the identifiers a failed cycle had not reached stay outside
\* the Seen-Set, unfetched, every later poll whose first page returns them
\* selects them as new, and none is left when such a poll completes; the
\* identifier that was being processed when the cycle raised is in the
\* Seen-Set and is not processed again.
C14_RetryUnreachedOnly ==
    \A m \in Threads :
        /\ \A i \in aux[m].interrupted :
              /\ i \in Range(monitors[m].persisted_items)
              /\ fetched[m][i] = 1
              /\ pc[m] \in {"loop"} \cup Dispatching => i \notin cycle[m].done
        /\ \A i \in aux[m].unreached :
              /\ i \notin Range(monitors[m].persisted_items)
              /\ fetched[m][i] = 0
              /\ notified[m][i] = 0
              /\ (pc[m] \in {"loop"} \cup Dispatching /\ i \in cycle[m].page) =>
                    i \in new_items[m]
        /\ CycleCompleted(m) => aux[m].unreached \cap cycle[m].page = {}

\* after a cycle raised while fetching the detail of i with j not reached, a
\* poll returning both has selected j as new and not i
C14_Witness ==
    \E m \in Threads : \E i, j \in Ids :
        /\ i \in aux[m].interrupted
        /\ j \in aux[m].unreached
        /\ pc[m] = "loop"
        /\ {i, j} \subseteq cycle[m].page
        /\ i \in cycle[m].seen
        /\ j \in new_items[m]
        /\ i \notin new_items[m]

\* C15: at no time are two monitors inside the transport section of the same
\* channel, and a monitor inside a channel's transport section holds that
\* channel's lock; one monitor may be inside the push section while another
\* is inside the email section.
C15_Serialized ==
    \A m1, m2 \in Threads :
        /\ pc[m1] = "alertzy_post" => alertzy_lock = m1
        /\ pc[m1] = "gmail_send" => gmail_lock = m1
        /\ m1 # m2 =>
              /\ ~(pc[m1] = "alertzy_post" /\ pc[m2] = "alertzy_post")
              /\ ~(pc[m1] = "gmail_send" /\ pc[m2] = "gmail_send")

\* one monitor is mailing while another is posting
C15_Witness ==
    \E m1, m2 \in Threads :
        /\ m1 # m2
        /\ pc[m1] = "gmail_send"
        /\ pc[m2] = "alertzy_post"
        /\ gmail_lock = m1
        /\ alertzy_lock = m2

\* C16: a step that moves one monitor's thread or changes its filter or
\* Seen-Set leaves the filter and Seen-Set of every other monitor unchanged,
\* and the identifiers a poll selects as new are those of its first page
\* outside the monitor's own Seen-Set, whatever the other monitors have seen.
C16_NoSharedState ==
    [][ \A m \in Threads :
          /\ \A o \in Threads \ {m} :
                (pc'[m] # pc[m] \/ monitors'[m] # monitors[m]) =>
                    monitors'[o] = monitors[o]
          /\ (pc[m] \in {"booted", "sleep"} /\ pc'[m] = "loop") =>
                new_items'[m] =
                    cycle'[m].page \ Range(monitors[m].persisted_items) ]_vars

\* an identifier in one monitor's Seen-Set has been selected as new by a
\* poll of another monitor
C16_Witness ==
    \E m, o \in Threads : \E i \in Ids :
        /\ m # o
        /\ i \in Range(monitors[o].persisted_items)
        /\ pc[m] = "loop"
        /\ i \in new_items[m]

\* C17: a failed post never leaves send_notification as an exception: the
\* call returns False with the lock released and the monitor goes on to the
\* email dispatch; a failed delivery to a recipient leaves
\* send_email_notification as an exception, which _run catches: the monitor
\* is in the cool-down with the failure logged and the lock released, and the
\* loop can go on from there.
C17_ErrorRouting ==
    \A m \in Threads :
        /\ aux[m].push = "False" =>
              /\ <<m, item[m].id>> \in alertzy_posts
              /\ alertzy_lock # m
              /\ pc[m] \in {"gmail", "gmail_send", "loop", "cooldown"}
              /\ pc[m] = "cooldown" => aux[m].mail = "failed"
        /\ aux[m].mail = "failed" =>
              /\ \E r \in 1..recipients : <<m, item[m].id, r>> \in emails_sent
              /\ pc[m] = "cooldown"
              /\ failures[m]
              /\ gmail_lock # m
              /\ ENABLED cooldown(m)

\* the post for an item failed, and then the delivery to the second recipient
C17_Witness ==
    \E m \in Threads :
        /\ aux[m].push = "False"
        /\ aux[m].mail = "failed"
        /\ <<m, item[m].id, 2>> \in emails_sent
        /\ pc[m] = "cooldown"

\* the Seen-Set of the cycle's start is still what the bootstrap returned:
\* no poll of this run has processed an identifier yet
FirstPolls(m) == cycle[m].seen = Range(items[m])

\* C18 as stated: when the first poll after a restart completes, every
\* identifier on its first page that an earlier run notified and that is in
\* stock has been notified again.
C18_Original ==
    \A m \in Threads :
        (earlier.restarts > 0 /\ CycleCompleted(m) /\ FirstPolls(m)) =>
            \A i \in cycle[m].page :
                (<<m, i>> \in earlier.notified /\ i \in in_stock) =>
                    notified[m][i] = 1

\* C18, amended: in every run, also after a restart, the identifiers the
\* bootstrap returned are never fetched or notified, whether or not an
\* earlier run notified them; when the first poll of the run completes, the
\* identifiers it has processed as new are those of its first page that the
\* bootstrap did not return.
C18_RestartBootstrap ==
    \A m \in Threads :
        /\ \A i \in Range(items[m]) :
              /\ fetched[m][i] = 0
              /\ notified[m][i] = 0
              /\ \A e \in PostsOf(m) \cup MailsOf(m) : e[2] # i
        /\ (CycleCompleted(m) /\ FirstPolls(m)) =>
              /\ cycle[m].done = cycle[m].page \ Range(items[m])
              /\ \A i \in cycle[m].done : fetched[m][i] = 1

\* after a restart the bootstrap has returned an identifier an earlier run
\* notified, and the first poll, whose first page returned it in stock, has
\* completed without notifying it
C18_Witness ==
    \E m \in Threads : \E i \in Ids :
        /\ earlier.restarts > 0
        /\ <<m, i>> \in earlier.notified
        /\ i \in Range(items[m])
        /\ CycleCompleted(m)
        /\ FirstPolls(m)
        /\ i \in cycle[m].page
        /\ i \in in_stock
        /\ notified[m][i] = 0

\* a channel's lock is held only by a thread inside that channel's transport
\* section
LocksHeldInside ==
    /\ alertzy_lock # 0 =>
          alertzy_lock \in Threads /\ pc[alertzy_lock] = "alertzy_post"
    /\ gmail_lock # 0 =>
          gmail_lock \in Threads /\ pc[gmail_lock] = "gmail_send"

\* C19: a channel's lock is held only inside the channel's transport section,
\* so it is free after every dispatch, failed or not; and a monitor that
\* reaches a channel's dispatch eventually holds that channel's lock, whatever
\* the other monitor's dispatches did before.
C19_LocksReleased ==
    /\ []LocksHeldInside
    /\ \A m \in ConcThreads :
          /\ (m \in Threads /\ pc[m] = "alertzy") ~>
                (m \in Threads /\ pc[m] = "alertzy_post" /\ alertzy_lock = m)
          /\ (m \in Threads /\ pc[m] = "gmail") ~>
                (m \in Threads /\ pc[m] = "gmail_send" /\ gmail_lock = m)

\* one monitor's email dispatch has failed and it is in its cool-down, while
\* the other monitor holds the email lock
C19_Witness ==
    \E m, o \in Threads :
        /\ m # o
        /\ aux[m].mail = "failed"
        /\ pc[m] = "cooldown"
        /\ pc[o] = "gmail_send"
        /\ gmail_lock = o

\* new identifiers of monitor m's poll cycle that its for loop has not reached
Unreached(m) == (cycle[m].page \ cycle[m].seen) \ cycle[m].done

\* C20: when a poll cycle has raised, the Seen-Set holds what it held at the
\* cycle's start and the identifiers processed up to and including the one
\* that failed; the new identifiers not reached are outside it and unfetched;
\* every later poll whose first page returns one of them selects it as new,
\* and none is left when such a poll completes.
C20_UnreachedStayNew ==
    \A m \in Threads :
        /\ pc[m] = "cooldown" =>
              /\ Range(monitors[m].persisted_items) =
                    cycle[m].seen \cup cycle[m].done
              /\ Unreached(m) \cap Range(monitors[m].persisted_items) = {}
              /\ Unreached(m) \subseteq aux[m].unreached
              /\ \A i \in Unreached(m) : fetched[m][i] = 0
        /\ pc[m] \in {"loop"} \cup Dispatching =>
              aux[m].unreached \cap cycle[m].page \subseteq
                  new_items[m] \ cycle[m].seen
        /\ CycleCompleted(m) => aux[m].unreached \cap cycle[m].page = {}

\* a poll cycle raised while processing one new identifier with another not
\* reached
C20_Witness ==
    \E m \in Threads :
        /\ pc[m] = "cooldown"
        /\ Unreached(m) # {}
        /\ cycle[m].done # {}
        /\ aux[m].interrupted # {}

====
